---------------------------- MODULE Spec2Model ----------------------------
(***************************************************************************)
(* Attendance-session engine of the biometric attendance backend.          *)
(*                                                                         *)
(* markAttendance (face) and markAttendanceWithFingerprint are async       *)
(* handlers; every `await` is a point where other requests and the wall    *)
(* clock may move.  A request therefore runs as a chain of steps:          *)
(*   Begin   - identity resolved, `today` computed, findOne issued         *)
(*   Query   - the store executes Attendance.findOne                       *)
(*   Decide  - the handler resumes, picks login/logout or rejects,         *)
(*             reads `now`                                                 *)
(*   Upload  - (face login only) the S3 upload resolves and the document   *)
(*             is constructed                                              *)
(*   Save    - the store executes document.save(), the response is sent    *)
(* The ledger is the Attendance collection.  Its indexes are not unique.   *)
(***************************************************************************)
EXTENDS Integers, Sequences, FiniteSets, Bags, TLC

(* ---- bounds of the model ---- *)
NumStudents == 2
MaxReq == 3
MaxTick == 2
MaxInflight == 2

(* ---- time: milliseconds since the epoch of the model ---- *)
MsPerMinute == 1000 * 60
MsPerHour == 1000 * 60 * 60
MsPerDay == 24 * MsPerHour
ClockStart == 9 * MsPerHour
TickMs == 510 * MsPerMinute
ClockEnd == ClockStart + MaxTick * TickMs

Students == 1..NumStudents
Slots == 1..MaxReq
Actions == {"auto", "login", "logout"}
Methods == {"face", "fingerprint"}

None == <<>>
Some(x) == <<x>>
IsSome(o) == o # <<>>
Val(o) == o[1]

(* today.setHours(0, 0, 0, 0) *)
StartOfDay(t) == t - (t % MsPerDay)

VARIABLES clock, ledger, req, isModifiedDefault, events,
          active, counter, issued, fp, tg, mt, vf, enrolledAt, ab,
          roster, en, stats, chk
(* the Student collection (isActive, fingerprintCounter), the challenges   *)
(* handed out, the front half of the fingerprint handler, the status       *)
(* toggle, one run of the matcher and one run of the assertion verifier,   *)
(* the students' enrolment times and one run of the absentee report        *)
aux == <<active, counter, issued, fp, tg, mt, vf, enrolledAt, ab, roster, en, stats, chk>>
vars == <<clock, ledger, req, isModifiedDefault, events, active, counter, issued, fp, tg, mt, vf,
          enrolledAt, ab, roster, en, stats, chk>>

(* ---- pure parts of the handlers ---- *)

(* Attendance.findOne({ student, date: { $gte: today } }): the ids of the  *)
(* documents the filter matches.                                           *)
FindOneMatches(L, s, today) ==
  {i \in DOMAIN L : L[i].student = s /\ L[i].date >= today}

(* the in-memory copy of a document returned by findOne *)
DocOf(L, i) ==
  [id |-> i, date |-> L[i].date, timeIn |-> L[i].timeIn, timeOut |-> L[i].timeOut]

(* "Intelligent login/logout detection" followed by the logout guards:     *)
(* what the handler does with the requested action and the document read.  *)
DecisionAutoNoCompleted(action, doc) ==
  LET actionType ==
        IF action = "auto"
        THEN IF IsSome(doc) /\ ~IsSome(Val(doc).timeOut) THEN "logout" ELSE "login"
        ELSE action
  IN IF actionType = "logout"
     THEN IF ~IsSome(doc) THEN "MustLoginFirst"
          ELSE IF IsSome(Val(doc).timeOut) THEN "AlreadyCompleted"
          ELSE "logout"
     ELSE actionType
DecisionNoMustLogin(action, doc) ==
  LET actionType ==
        IF action = "auto"
        THEN IF IsSome(doc) /\ ~IsSome(Val(doc).timeOut) THEN "logout"
             ELSE IF IsSome(doc) /\ IsSome(Val(doc).timeOut) THEN "AlreadyCompleted"
             ELSE "login"
        ELSE action
  IN IF actionType = "logout"
     THEN IF ~IsSome(doc) THEN "login"
          ELSE IF IsSome(Val(doc).timeOut) THEN "AlreadyCompleted"
          ELSE "logout"
     ELSE actionType
DecisionNoClosedGuard(action, doc) ==
  LET actionType ==
        IF action = "auto"
        THEN IF IsSome(doc) /\ ~IsSome(Val(doc).timeOut) THEN "logout"
             ELSE IF IsSome(doc) /\ IsSome(Val(doc).timeOut) THEN "AlreadyCompleted"
             ELSE "login"
        ELSE action
  IN IF actionType = "logout"
     THEN IF ~IsSome(doc) THEN "MustLoginFirst" ELSE "logout"
     ELSE actionType
Decision(action, doc) ==
  LET actionType ==
        IF action = "auto"
        THEN IF IsSome(doc) /\ ~IsSome(Val(doc).timeOut) THEN "logout"
             ELSE IF IsSome(doc) /\ IsSome(Val(doc).timeOut) THEN "AlreadyCompleted"
             ELSE "login"
        ELSE action
  IN IF actionType = "logout"
     THEN IF ~IsSome(doc) THEN "MustLoginFirst"
          ELSE IF IsSome(Val(doc).timeOut) THEN "AlreadyCompleted"
          ELSE "logout"
     ELSE actionType

(* duration, hours and minutes reported by a logout *)
DurationOf(now, timeIn) == now - timeIn
HoursOfCeil(d) == (d + MsPerHour - 1) \div MsPerHour
HoursOf(d) == d \div MsPerHour
MinutesOf(d) == (d % MsPerHour) \div MsPerMinute

(* attendanceSchema.pre('save'): date is truncated only if Mongoose        *)
(* reports the path as modified.                                           *)
PreSaveDate(d, modified) == IF modified THEN StartOfDay(d) ELSE d

(* ---- state ---- *)
IdleReq ==
  [pc |-> "idle", student |-> 0, action |-> "none", method |-> "none",
   today |-> 0, doc |-> None, now |-> 0, date |-> 0,
   outcome |-> "none", entry |-> 0, duration |-> 0, hours |-> 0, minutes |-> 0,
   location |-> "none", notes |-> None, confidence |-> 0, upload |-> "none"]

(* what a request carries besides the action: `location` (default 'Main   *)
(* Campus'), `notes` (optional), and for a face request the confidence of  *)
(* the match found for it (hundredths)                                     *)
DefaultInput == [location |-> "Main Campus", notes |-> None, confidence |-> 55]
Inputs ==
  {DefaultInput,
   [location |-> "Library", notes |-> Some("late"), confidence |-> 55],
   [location |-> "Main Campus", notes |-> None, confidence |-> 100]}

(* the result of s3Service.uploadAttendanceImage: { success, url } *)
UploadOf(ok) == IF ok THEN "ok" ELSE "failed"
PhotoUrl(method, upload, kind) ==
  IF method = "face" /\ upload = "ok" THEN Some(kind) ELSE None
(* `if (!loginUploadResult.success) { ... continue ... }`: where the        *)
(* handler goes after the upload                                           *)
AfterUploadAbort(ok) == IF ok THEN "save" ELSE "done"
AfterUpload(ok) == "save"

FpIdle ==
  [pc |-> "idle", student |-> 0, action |-> "none", challenge |-> 0,
   signed |-> FALSE, counterRead |-> 0, outcome |-> "none",
   credential |-> 0, signCount |-> 0]
(* one call of getAttendanceStats: its promise (`result`, None while       *)
(* pending), whether its handleStats is registered, its timer, and which   *)
(* of a 'stats:response' and the timeout came first after registration     *)
StatsIdle ==
  [pc |-> "idle", listener |-> FALSE, timer |-> "none", result |-> None,
   first |-> None, firstEvent |-> "none"]
EnIdle ==
  [pc |-> "idle", kind |-> "none", id |-> 0, email |-> None, phone |-> None,
   student |-> None, outcome |-> "none"]
ChkIdle ==
  [pc |-> "idle", student |-> 0, method |-> "none", today |-> 0, doc |-> None,
   isLoggedIn |-> FALSE, message |-> "none"]
TgIdle == [pc |-> "idle", student |-> 0, isActive |-> FALSE]
MtIdle ==
  [pc |-> "off", probe |-> <<>>, stored |-> <<>>, threshold |-> 0,
   cands |-> <<>>, i |-> 0, best |-> None, bestDistance |-> None,
   outcome |-> "none", cmp |-> None]
VfIdle == [pc |-> "off", request |-> <<>>, publicKey |-> "none",
           challenge |-> None, result |-> "none"]
AbIdle == [pc |-> "idle", targetDate |-> 0, nextDay |-> 0, allStudents |-> <<>>,
           presentStudents |-> {}, absentStudents |-> <<>>]

InitStore ==
  /\ clock = ClockStart
  /\ ledger = <<>>
  /\ req = [r \in Slots |-> IdleReq]
  /\ active = [s \in Students |-> TRUE]
  /\ counter = [s \in Students |-> 0]
  /\ issued = {}
  /\ fp = [r \in Slots |-> FpIdle]
  /\ tg = TgIdle
  /\ events = EmptyBag
  /\ roster = <<>>
  /\ en = [r \in Slots |-> EnIdle]
  /\ stats = [c \in Slots |-> StatsIdle]
  /\ chk = ChkIdle
  /\ enrolledAt = [s \in Students |-> 0]
  /\ ab = AbIdle

Init ==
  /\ InitStore
  /\ isModifiedDefault \in BOOLEAN
  /\ mt = MtIdle
  /\ vf = VfIdle

InFlight(r) == req[r].pc \notin {"idle", "done"}

(* ---- steps of a request ---- *)

(* Students are interchangeable: a request names a student already named  *)
(* by an earlier request, or the next unnamed one.                         *)
Named == {req[q].student : q \in {x \in Slots : req[x].pc # "idle"}}
FreshOrNamed(s) == s \in Named \/ s = Cardinality(Named) + 1

(* Student.find({ isActive: true, ... }) of the face handler and           *)
(* Student.findOne({ fingerprintCredentialId, isActive: true }) of the     *)
(* fingerprint handler: only a document stored as active is returned.      *)
ResolvesAny(act, s) == TRUE
Resolves(act, s) == act[s]

(* lines up to `const today = new Date(); today.setHours(0,0,0,0)` and the *)
(* issue of findOne; the resolved identity is an input.  Slots are taken   *)
(* in order and at most MaxInflight requests run at once.                  *)
Begin(r, s, a, m, x) ==
  /\ req[r].pc = "idle"
  /\ Resolves(active, s)
  /\ \A q \in Slots : q < r => req[q].pc # "idle"
  /\ FreshOrNamed(s)
  /\ Cardinality({q \in Slots : InFlight(q)}) < MaxInflight
  /\ req' = [req EXCEPT ![r] =
               [IdleReq EXCEPT !.pc = "query", !.student = s, !.action = a,
                               !.method = m, !.today = StartOfDay(clock),
                               !.location = x.location, !.notes = x.notes,
                               !.confidence = IF m = "face" THEN x.confidence ELSE 100]]
  /\ UNCHANGED <<clock, ledger, isModifiedDefault, events>>
  /\ UNCHANGED aux

(* the store answers findOne: any one matching document, or null *)
Query(r) ==
  /\ req[r].pc = "query"
  /\ LET M == FindOneMatches(ledger, req[r].student, req[r].today)
     IN IF M = {}
        THEN req' = [req EXCEPT ![r].pc = "decide", ![r].doc = None]
        ELSE \E i \in M :
               req' = [req EXCEPT ![r].pc = "decide",
                                  ![r].doc = Some(DocOf(ledger, i))]
  /\ UNCHANGED <<clock, ledger, isModifiedDefault, events>>
  /\ UNCHANGED aux

(* the handler resumes after findOne.  On a face logout the upload that    *)
(* precedes save() reads nothing the session depends on, so the request    *)
(* goes straight to its save.                                              *)
Decide(r) ==
  /\ req[r].pc = "decide"
  /\ LET d == Decision(req[r].action, req[r].doc)
     IN IF d \in {"AlreadyCompleted", "MustLoginFirst"}
        THEN req' = [req EXCEPT ![r].pc = "done", ![r].outcome = d]
        ELSE IF d = "logout"
        THEN req' = [req EXCEPT
                       ![r].pc = "save",
                       ![r].outcome = "logout",
                       ![r].now = clock]
        ELSE req' = [req EXCEPT
                       ![r].pc = IF req[r].method = "face" THEN "upload" ELSE "save",
                       ![r].outcome = "login",
                       ![r].now = clock,
                       ![r].date = clock]
  /\ UNCHANGED <<clock, ledger, isModifiedDefault, events>>
  /\ UNCHANGED aux

(* face login: s3Service.uploadAttendanceImage resolves and the document   *)
(* is constructed, so its default date (Date.now) is read at this point.   *)
Upload(r, ok) ==
  /\ req[r].pc = "upload"
  /\ req' = [req EXCEPT ![r].pc = AfterUpload(ok), ![r].date = clock,
                        ![r].upload = UploadOf(ok)]
  /\ UNCHANGED <<clock, ledger, isModifiedDefault, events>>
  /\ UNCHANGED aux

(* eventService.emitAttendanceMarked(data): one 'attendance:marked' event  *)
(* with the data of the request; `request` tells the emitting requests     *)
(* apart                                                                   *)
AttendanceMarked(r, timeIn, action) ==
  [request |-> r, studentId |-> req[r].student, timeIn |-> timeIn,
   confidence |-> req[r].confidence, action |-> action]
EmitTwice(ev, e) == ev (+) SetToBag({e}) (+) SetToBag({e})
Emit(ev, e) == ev (+) SetToBag({e})

(* the store executes save(); the handler emits the event and computes the *)
(* response                                                                *)
SaveLogin(r) ==
  /\ req[r].pc = "save"
  /\ req[r].outcome = "login"
  /\ ledger' = Append(ledger,
                 [student |-> req[r].student,
                  date |-> PreSaveDate(req[r].date, isModifiedDefault),
                  timeIn |-> req[r].now,
                  timeOut |-> None,
                  method |-> req[r].method,
                  location |-> req[r].location,
                  notes |-> req[r].notes,
                  confidence |-> IF req[r].method = "face"
                                 THEN Some(req[r].confidence) ELSE None,
                  loginPhotoUrl |-> PhotoUrl(req[r].method, req[r].upload, "login"),
                  logoutPhotoUrl |-> None])
  /\ req' = [req EXCEPT ![r].pc = "done", ![r].outcome = "LoggedIn",
                        ![r].date = 0,
                        ![r].entry = Len(ledger) + 1]
  /\ events' = Emit(events, AttendanceMarked(r, req[r].now, "login"))
  /\ UNCHANGED <<clock, isModifiedDefault>>
  /\ UNCHANGED aux

SaveLogout(r, ok) ==
  /\ req[r].pc = "save"
  /\ req[r].outcome = "logout"
  /\ LET doc == Val(req[r].doc)
         dur == DurationOf(req[r].now, doc.timeIn)
         upload == IF req[r].method = "face" THEN UploadOf(ok) ELSE "none"
     IN /\ ledger' = [ledger EXCEPT
                        ![doc.id].timeOut = Some(req[r].now),
                        ![doc.id].logoutPhotoUrl =
                          IF upload = "ok" THEN Some("logout") ELSE @]
        /\ req' = [req EXCEPT ![r].pc = "done", ![r].outcome = "LoggedOut",
                              ![r].upload = upload,
                              ![r].entry = doc.id,
                              ![r].duration = dur,
                              ![r].hours = HoursOf(dur),
                              ![r].minutes = MinutesOf(dur)]
        /\ events' = Emit(events, AttendanceMarked(r, doc.timeIn, "logout"))
  /\ UNCHANGED <<clock, isModifiedDefault>>
  /\ UNCHANGED aux

(* the wall clock advances; it never goes back *)
TickBack ==
  /\ clock >= TickMs
  /\ clock' = clock - TickMs
  /\ UNCHANGED <<ledger, req, isModifiedDefault, events>>
  /\ UNCHANGED aux
Tick ==
  /\ clock < ClockEnd
  /\ clock' = clock + TickMs
  /\ UNCHANGED <<ledger, req, isModifiedDefault, events>>
  /\ UNCHANGED aux

(* requests with the default location and no notes, whose uploads succeed  *)
BeginAny ==
  \E r \in Slots, s \in Students, a \in Actions, m \in Methods :
    Begin(r, s, a, m, DefaultInput)
QueryAny == \E r \in Slots : Query(r)
DecideAny == \E r \in Slots : Decide(r)
UploadAny == \E r \in Slots : Upload(r, TRUE)
SaveLoginAny == \E r \in Slots : SaveLogin(r)
SaveLogoutAny == \E r \in Slots : SaveLogout(r, TRUE)

Next ==
  \/ BeginAny
  \/ QueryAny
  \/ DecideAny
  \/ UploadAny
  \/ SaveLoginAny
  \/ SaveLogoutAny
  \/ Tick

Spec == Init /\ [][Next]_vars

(* requests served one after the other: a request begins only when no      *)
(* other request is in flight.                                             *)
BeginSeq == (\A q \in Slots : ~InFlight(q)) /\ BeginAny

NextSeq ==
  \/ BeginSeq
  \/ QueryAny
  \/ DecideAny
  \/ UploadAny
  \/ SaveLoginAny
  \/ SaveLogoutAny
  \/ Tick

SpecSeq == Init /\ [][NextSeq]_vars

(* requests served one after the other, with any location, notes and match *)
(* confidence, and uploads that succeed or fail                            *)
BeginEntry ==
  /\ \A q \in Slots : ~InFlight(q)
  /\ \E r \in Slots, s \in Students, a \in Actions, m \in Methods, x \in Inputs :
       Begin(r, s, a, m, x)
UploadEither == \E r \in Slots, ok \in BOOLEAN : Upload(r, ok)
SaveLogoutEither == \E r \in Slots, ok \in BOOLEAN : SaveLogout(r, ok)

NextEntry ==
  \/ BeginEntry
  \/ QueryAny
  \/ DecideAny
  \/ UploadEither
  \/ SaveLoginAny
  \/ SaveLogoutEither

SpecEntry == Init /\ [][NextEntry]_vars

(* ---- requests that end without success ---- *)

(* the answers given before any attendance entry is read.  markAttendance: *)
(* 400 (fingerprint method at the face endpoint, no face image), 503       *)
(* (models not loaded), 500 (no face or several faces: the exception of    *)
(* extractFaceDescriptor), 404 (no student enrolled with a face, no        *)
(* match).  markAttendanceWithFingerprint: 400 (no or invalid credential   *)
(* id), 404 (no active student with the id), 401 (assertion refused).      *)
RefusalsOf(m) ==
  IF m = "face"
  THEN {"NoImage", "ModelsNotLoaded", "NoFace", "NoMatch"}
  ELSE {"InvalidCredential", "NotFound", "Unauthorized"}

Refuse(r, m, why) ==
  /\ req[r].pc = "idle"
  /\ \A q \in Slots : q < r => req[q].pc # "idle"
  /\ req' = [req EXCEPT ![r] =
               [IdleReq EXCEPT !.pc = "done", !.method = m, !.outcome = why]]
  /\ UNCHANGED <<clock, ledger, isModifiedDefault, events>>
  /\ UNCHANGED aux

(* findOne or save() rejects: the catch block answers 500; what the        *)
(* handler assigned to its copy of the document is lost with it            *)
ThrowsAfterWrite(r) ==
  /\ req[r].pc \in {"query", "save"}
  /\ ledger' = IF req[r].pc = "save" /\ req[r].outcome = "logout"
               THEN [ledger EXCEPT ![Val(req[r].doc).id].timeOut = Some(req[r].now)]
               ELSE ledger
  /\ req' = [req EXCEPT ![r].pc = "done", ![r].outcome = "Failed"]
  /\ UNCHANGED <<clock, isModifiedDefault, events>>
  /\ UNCHANGED aux
Throws(r) ==
  /\ req[r].pc \in {"query", "save"}
  /\ req' = [req EXCEPT ![r].pc = "done", ![r].outcome = "Failed"]
  /\ UNCHANGED <<clock, ledger, isModifiedDefault, events>>
  /\ UNCHANGED aux

NextEvent ==
  \/ BeginAny
  \/ \E r \in Slots, m \in Methods : \E why \in RefusalsOf(m) : Refuse(r, m, why)
  \/ QueryAny
  \/ DecideAny
  \/ UploadAny
  \/ SaveLoginAny
  \/ SaveLogoutAny
  \/ \E r \in Slots : Throws(r)

SpecEvent == Init /\ [][NextEvent]_vars

(* ---- checkLoginStatus, checkLoginStatusWithFingerprint ---- *)

(* `!existingAttendance || !existingAttendance.timeIn` answers false (an   *)
(* entry always has timeIn: the schema requires it); otherwise             *)
(* isLoggedIn = !existingAttendance.timeOut                                *)
IsLoggedInAnyEntry(doc) == IsSome(doc)
IsLoggedIn(doc) == IsSome(doc) /\ ~IsSome(Val(doc).timeOut)
StatusMessage(doc) ==
  IF ~IsSome(doc) THEN "Not logged in"
  ELSE IF IsLoggedIn(doc) THEN "Currently logged in" ELSE "Already logged out"

(* the sample resolves to the active student s, or to nobody (s = 0: no    *)
(* match, no active student with the credential id), which is answered     *)
(* isLoggedIn: false at once; otherwise today is computed and findOne      *)
(* issued                                                                  *)
CheckBegin(s, m) ==
  /\ chk.pc = "idle"
  /\ \A q \in Slots : ~InFlight(q)
  /\ IF s \in Students /\ Resolves(active, s)
     THEN chk' = [ChkIdle EXCEPT !.pc = "query", !.student = s, !.method = m,
                                 !.today = StartOfDay(clock)]
     ELSE chk' = [ChkIdle EXCEPT !.pc = "done", !.method = m,
                                 !.message = "Student not recognized"]
  /\ UNCHANGED <<clock, ledger, req, isModifiedDefault, events, active, counter, issued,
                 fp, tg, mt, vf, enrolledAt, ab, roster, en, stats>>

(* the store answers findOne({ student, date: { $gte: today } }) and the   *)
(* handler answers from the document                                       *)
CheckQuery ==
  /\ chk.pc = "query"
  /\ LET M == FindOneMatches(ledger, chk.student, chk.today)
     IN \E d \in (IF M = {} THEN {None} ELSE {Some(DocOf(ledger, i)) : i \in M}) :
          chk' = [chk EXCEPT !.pc = "done", !.doc = d,
                             !.isLoggedIn = IsLoggedIn(d),
                             !.message = StatusMessage(d)]
  /\ UNCHANGED <<clock, ledger, req, isModifiedDefault, events, active, counter, issued,
                 fp, tg, mt, vf, enrolledAt, ab, roster, en, stats>>

(* requests and status checks served one after the other *)
BeginChecked == chk.pc # "query" /\ BeginSeq

NextCheck ==
  \/ BeginChecked
  \/ QueryAny
  \/ DecideAny
  \/ UploadAny
  \/ SaveLoginAny
  \/ SaveLogoutAny
  \/ Tick
  \/ \E s \in Students \cup {0}, m \in Methods : CheckBegin(s, m)
  \/ CheckQuery

SpecCheck == Init /\ [][NextCheck]_vars

(* ---- enrollStudent, updateStudent ---- *)

(* e-mail addresses as the client sends them and String.toLowerCase        *)
Emails == {"a@mca.in", "A@mca.in", "b@mca.in"}
Phones == {"9000000001", "9000000002"}
ToLowerCase(e) == IF e = "A@mca.in" THEN "a@mca.in" ELSE e

(* Student.findOne({ $or: [{ email }, { phone }] }), findOne({ email }),   *)
(* findOne({ phone }): whether some document matches                       *)
ExistsEmailOrPhone(R, email, phone) ==
  \E i \in DOMAIN R : R[i].email = email \/ R[i].phone = phone
ExistsEmail(R, email) == \E i \in DOMAIN R : R[i].email = email
ExistsPhone(R, phone) == \E i \in DOMAIN R : R[i].phone = phone
(* the unique index of the path `email` (unique: true): a write that would *)
(* give a second document the same e-mail fails; `phone` has no such index *)
UniqueEmailHolds(R, id, email) ==
  \A i \in DOMAIN R : i # id => R[i].email # email

enFrame ==
  <<clock, ledger, req, isModifiedDefault, events, active, counter, issued,
    fp, tg, mt, vf, enrolledAt, ab, stats, chk>>

(* enrollStudent up to the issue of findOne({ $or: ... }) *)
EnrollBegin(r, email, phone) ==
  /\ en[r].pc = "idle"
  /\ \A q \in Slots : q < r => en[q].pc # "idle"
  /\ Cardinality({q \in Slots : en[q].pc \notin {"idle", "done"}}) < MaxInflight
  /\ en' = [en EXCEPT ![r] = [EnIdle EXCEPT !.pc = "find", !.kind = "enroll",
                                            !.email = Some(email), !.phone = Some(phone)]]
  /\ UNCHANGED roster
  /\ UNCHANGED enFrame

(* the store answers the findOne of enrollStudent; 400 when a student has  *)
(* the e-mail or the phone, otherwise the document is built and save()     *)
(* issued                                                                  *)
EnrollFind(r) ==
  /\ en[r].pc = "find"
  /\ en[r].kind = "enroll"
  /\ IF ExistsEmailOrPhone(roster, ToLowerCase(Val(en[r].email)), Val(en[r].phone))
     THEN en' = [en EXCEPT ![r].pc = "done", ![r].outcome = "AlreadyExists"]
     ELSE en' = [en EXCEPT ![r].pc = "save"]
  /\ UNCHANGED roster
  /\ UNCHANGED enFrame

(* the store executes the insert: 201, or the duplicate-key error of the   *)
(* e-mail index, caught and answered 500                                   *)
EnrollSave(r) ==
  /\ en[r].pc = "save"
  /\ en[r].kind = "enroll"
  /\ IF UniqueEmailHolds(roster, 0, ToLowerCase(Val(en[r].email)))
     THEN /\ roster' = Append(roster, [email |-> ToLowerCase(Val(en[r].email)),
                                       phone |-> Val(en[r].phone)])
          /\ en' = [en EXCEPT ![r].pc = "done", ![r].outcome = "Enrolled",
                              ![r].id = Len(roster) + 1]
     ELSE /\ roster' = roster
          /\ en' = [en EXCEPT ![r].pc = "done", ![r].outcome = "Failed"]
  /\ UNCHANGED enFrame

(* updateStudent up to the issue of findById; name and course are not      *)
(* modelled, so the request carries an e-mail, a phone or both             *)
UpdateBegin(r, id, email, phone) ==
  /\ en[r].pc = "idle"
  /\ \A q \in Slots : q < r => en[q].pc # "idle"
  /\ Cardinality({q \in Slots : en[q].pc \notin {"idle", "done"}}) < MaxInflight
  /\ email # None \/ phone # None
  /\ en' = [en EXCEPT ![r] = [EnIdle EXCEPT !.pc = "findById", !.kind = "update",
                                            !.id = id, !.email = email, !.phone = phone]]
  /\ UNCHANGED roster
  /\ UNCHANGED enFrame

(* the store answers findById: 404, or the handler holds a copy of the     *)
(* document                                                                *)
UpdateFindById(r) ==
  /\ en[r].pc = "findById"
  /\ IF en[r].id \in DOMAIN roster
     THEN en' = [en EXCEPT ![r].pc = "email", ![r].student = Some(roster[en[r].id])]
     ELSE en' = [en EXCEPT ![r].pc = "done", ![r].outcome = "NotFound"]
  /\ UNCHANGED roster
  /\ UNCHANGED enFrame

(* if (updateData.email && updateData.email !== student.email):            *)
(* findOne({ email: updateData.email.toLowerCase() }) and its 400          *)
UpdateCheckEmail(r) ==
  /\ en[r].pc = "email"
  /\ IF /\ en[r].email # None
        /\ Val(en[r].email) # Val(en[r].student).email
        /\ ExistsEmail(roster, ToLowerCase(Val(en[r].email)))
     THEN en' = [en EXCEPT ![r].pc = "done", ![r].outcome = "EmailInUse"]
     ELSE en' = [en EXCEPT ![r].pc = "phone"]
  /\ UNCHANGED roster
  /\ UNCHANGED enFrame

(* if (updateData.phone && updateData.phone !== student.phone):            *)
(* findOne({ phone }) and its 400; then the fields are assigned to the     *)
(* copy and save() is issued                                               *)
UpdateCheckPhone(r) ==
  /\ en[r].pc = "phone"
  /\ IF /\ en[r].phone # None
        /\ Val(en[r].phone) # Val(en[r].student).phone
        /\ ExistsPhone(roster, Val(en[r].phone))
     THEN en' = [en EXCEPT ![r].pc = "done", ![r].outcome = "PhoneInUse"]
     ELSE en' = [en EXCEPT ![r].pc = "save"]
  /\ UNCHANGED roster
  /\ UNCHANGED enFrame

(* the store executes save(): the assigned paths are written, unless the   *)
(* e-mail index refuses the new e-mail (500)                               *)
UpdateSave(r) ==
  /\ en[r].pc = "save"
  /\ en[r].kind = "update"
  /\ LET email == IF en[r].email # None THEN ToLowerCase(Val(en[r].email))
                  ELSE roster[en[r].id].email
         phone == IF en[r].phone # None THEN Val(en[r].phone)
                  ELSE roster[en[r].id].phone
     IN IF UniqueEmailHolds(roster, en[r].id, email)
        THEN /\ roster' = [roster EXCEPT ![en[r].id] = [email |-> email, phone |-> phone]]
             /\ en' = [en EXCEPT ![r].pc = "done", ![r].outcome = "Updated"]
        ELSE /\ roster' = roster
             /\ en' = [en EXCEPT ![r].pc = "done", ![r].outcome = "Failed"]
  /\ UNCHANGED enFrame

NextRoster ==
  \/ \E r \in Slots, e \in Emails, p \in Phones : EnrollBegin(r, e, p)
  \/ \E r \in Slots : EnrollFind(r)
  \/ \E r \in Slots : EnrollSave(r)
  \/ \E r \in Slots, id \in 1..MaxReq :
       \E e \in {None} \cup {Some(x) : x \in Emails},
          p \in {None} \cup {Some(x) : x \in Phones} :
         UpdateBegin(r, id, e, p)
  \/ \E r \in Slots : UpdateFindById(r)
  \/ \E r \in Slots : UpdateCheckEmail(r)
  \/ \E r \in Slots : UpdateCheckPhone(r)
  \/ \E r \in Slots : UpdateSave(r)

SpecRoster == Init /\ [][NextRoster]_vars

(* ---- EventService.getAttendanceStats ---- *)

(* the payloads of 'stats:response' and the answer of the timeout          *)
ZeroStats == [totalStudents |-> 0, presentToday |-> 0, attendanceRate |-> 0]
StatsPayloads ==
  {[totalStudents |-> 2, presentToday |-> 1, attendanceRate |-> 50],
   [totalStudents |-> 2, presentToday |-> 2, attendanceRate |-> 100]}

(* resolve(value) of a promise: settles it if it is pending, otherwise     *)
(* does nothing                                                            *)
ResolveOverwrites(call, value) == [call EXCEPT !.pc = "resolved", !.result = Some(value)]
Resolve(call, value) ==
  IF call.result = None
  THEN [call EXCEPT !.pc = "resolved", !.result = Some(value)]
  ELSE call

(* handleStats(stats): removeListener('stats:response', handleStats);      *)
(* resolve(stats)                                                          *)
HandleStats(call, payload) == Resolve([call EXCEPT !.listener = FALSE], payload)

(* emit('stats:response', payload): every registered handleStats runs      *)
Deliver(S, payload) ==
  [c \in Slots |->
     LET seen == IF S[c].pc # "idle" /\ S[c].firstEvent = "none"
                 THEN [S[c] EXCEPT !.first = Some(payload), !.firstEvent = "response"]
                 ELSE S[c]
     IN IF seen.listener THEN HandleStats(seen, payload) ELSE seen]

statsFrame ==
  <<clock, ledger, req, isModifiedDefault, events, active, counter, issued,
    fp, tg, mt, vf, enrolledAt, ab, roster, en, chk>>

(* getAttendanceStats(): emit('stats:request'), to which a responder may   *)
(* answer at once (sync # None) before this call listens; then             *)
(* on('stats:response', handleStats) and setTimeout(..., 5000)             *)
GetAttendanceStats(c, sync) ==
  /\ stats[c].pc = "idle"
  /\ \A q \in Slots : q < c => stats[q].pc # "idle"
  /\ LET S == IF sync = None THEN stats ELSE Deliver(stats, Val(sync))
     IN stats' = [S EXCEPT ![c] = [StatsIdle EXCEPT !.pc = "pending",
                                                    !.listener = TRUE,
                                                    !.timer = "armed"]]
  /\ UNCHANGED statsFrame

(* some part of the program emits 'stats:response' *)
StatsResponse(payload) ==
  /\ \E c \in Slots : stats[c].pc # "idle"
  /\ stats' = Deliver(stats, payload)
  /\ UNCHANGED statsFrame

(* the timer of call c fires: removeListener('stats:response',             *)
(* handleStats); resolve({ 0, 0, 0 })                                      *)
StatsTimeout(c) ==
  /\ stats[c].timer = "armed"
  /\ stats' = [stats EXCEPT ![c] =
                 Resolve([stats[c] EXCEPT
                            !.listener = FALSE, !.timer = "fired",
                            !.firstEvent = IF @ = "none" THEN "timeout" ELSE @],
                         ZeroStats)]
  /\ UNCHANGED statsFrame

NextStats ==
  \/ \E c \in Slots, sync \in {None} \cup {Some(x) : x \in StatsPayloads} :
       GetAttendanceStats(c, sync)
  \/ \E x \in StatsPayloads : StatsResponse(x)
  \/ \E c \in Slots : StatsTimeout(c)

(* a timer that is armed fires *)
SpecStats ==
  /\ Init
  /\ [][NextStats]_vars
  /\ \A c \in Slots : WF_vars(StatsTimeout(c))

(* ---- toggleStudentStatus ---- *)

(* Student.findById(id): the document, with its isActive, is read *)
ToggleFind(s) ==
  /\ tg.pc = "idle"
  /\ tg' = [pc |-> "save", student |-> s, isActive |-> active[s]]
  /\ UNCHANGED <<clock, ledger, req, isModifiedDefault, events, active, counter, issued, fp, mt, vf, enrolledAt, ab, roster, en, stats, chk>>

(* student.isActive = !student.isActive; await student.save() *)
ToggleSave ==
  /\ tg.pc = "save"
  /\ active' = [active EXCEPT ![tg.student] = ~tg.isActive]
  /\ tg' = TgIdle
  /\ UNCHANGED <<clock, ledger, req, isModifiedDefault, events, counter, issued, fp, mt, vf, enrolledAt, ab, roster, en, stats, chk>>

ToggleFindAny == \E s \in Students : ToggleFind(s)

(* attendance requests served one after the other, while an administrator  *)
(* toggles students at any moment                                          *)
NextActive ==
  \/ BeginSeq
  \/ QueryAny
  \/ DecideAny
  \/ UploadAny
  \/ SaveLoginAny
  \/ SaveLogoutAny
  \/ ToggleFindAny
  \/ ToggleSave

SpecActive == Init /\ [][NextActive]_vars

(* ======================= session claims ======================= *)

Done(r) == req[r].pc = "done"
DayOf(e) == StartOfDay(ledger[e].date)
ReadOpen(r) == IsSome(req[r].doc) /\ ~IsSome(Val(req[r].doc).timeOut)
ReadClosed(r) == IsSome(req[r].doc) /\ IsSome(Val(req[r].doc).timeOut)
HasRead(r) == req[r].pc \notin {"idle", "query"}

(* C1: the ledger holds at most one entry per (identity, calendar day).    *)
C1_OneEntryPerIdentityDay ==
  \A i, j \in DOMAIN ledger :
    (ledger[i].student = ledger[j].student /\ DayOf(i) = DayOf(j)) => i = j

(* C2: of two auto requests for the same identity and day that both found  *)
(* no entry, exactly one logs in and the other is told AlreadyLoggedIn.    *)
C2_ConcurrentAutoOneLogin ==
  \A r1, r2 \in Slots :
    (/\ r1 # r2 /\ Done(r1) /\ Done(r2)
     /\ req[r1].action = "auto" /\ req[r2].action = "auto"
     /\ req[r1].student = req[r2].student
     /\ req[r1].today = req[r2].today
     /\ req[r1].doc = None /\ req[r2].doc = None)
    => \/ req[r1].outcome = "LoggedIn" /\ req[r2].outcome = "AlreadyLoggedIn"
       \/ req[r2].outcome = "LoggedIn" /\ req[r1].outcome = "AlreadyLoggedIn"

(* C3: a login request that finds today's entry open is rejected with      *)
(* AlreadyLoggedIn and writes nothing.                                     *)
C3_LoginOnOpenRejected ==
  \A r \in Slots :
    (Done(r) /\ req[r].action = "login" /\ ReadOpen(r))
    => (req[r].outcome = "AlreadyLoggedIn" /\ req[r].entry = 0)

(* C4: a login request that finds today's entry closed is rejected with    *)
(* AlreadyCompleted and writes nothing.                                    *)
C4_LoginOnClosedRejected ==
  \A r \in Slots :
    (Done(r) /\ req[r].action = "login" /\ ReadClosed(r))
    => (req[r].outcome = "AlreadyCompleted" /\ req[r].entry = 0)

(* C5: three auto requests in a row for one identity on one day, the first *)
(* finding no entry: login, logout of that same entry, AlreadyCompleted;   *)
(* and a step that ends a request with AlreadyCompleted leaves the ledger  *)
(* as it was.                                                              *)
AutoTriple(r1, r2, r3) ==
  /\ r1 < r2 /\ r2 < r3
  /\ Done(r1) /\ Done(r2) /\ Done(r3)
  /\ req[r1].action = "auto" /\ req[r2].action = "auto" /\ req[r3].action = "auto"
  /\ req[r2].student = req[r1].student /\ req[r3].student = req[r1].student
  /\ req[r2].today = req[r1].today /\ req[r3].today = req[r1].today
  /\ req[r1].doc = None
  /\ \A q \in Slots : (r1 < q /\ q < r3 /\ q # r2) => req[q].student # req[r1].student
AutoTripleOutcome(r1, r2, r3) ==
  /\ req[r1].outcome = "LoggedIn"
  /\ req[r2].outcome = "LoggedOut"
  /\ req[r2].entry = req[r1].entry
  /\ req[r3].outcome = "AlreadyCompleted"
  /\ req[r3].entry = 0
  /\ ledger[req[r1].entry].timeIn = req[r1].now
  /\ ledger[req[r1].entry].timeOut = Some(req[r2].now)
C5_AutoCycle ==
  /\ [](\A r1, r2, r3 \in Slots : AutoTriple(r1, r2, r3) => AutoTripleOutcome(r1, r2, r3))
  /\ [][\A r \in Slots :
          (~Done(r) /\ req'[r].pc = "done" /\ req'[r].outcome = "AlreadyCompleted")
          => ledger' = ledger]_vars
C5_Witness ==
  \E r1, r2, r3 \in Slots : AutoTriple(r1, r2, r3) /\ AutoTripleOutcome(r1, r2, r3)

(* C6: a logout request that finds no entry for today ends with            *)
(* MustLoginFirst, and neither that step nor the request creates an entry. *)
C6_LogoutWithoutEntry ==
  /\ [](\A r \in Slots :
          (HasRead(r) /\ req[r].action = "logout" /\ req[r].doc = None)
          => /\ req[r].pc \in {"decide", "done"}
             /\ Done(r) => (req[r].outcome = "MustLoginFirst" /\ req[r].entry = 0))
  /\ [][\A r \in Slots :
          (req[r].pc = "decide" /\ req[r].action = "logout" /\ req[r].doc = None
           /\ req'[r] # req[r])
          => (req'[r].outcome = "MustLoginFirst" /\ ledger' = ledger)]_vars
C6_Witness ==
  \E r \in Slots :
    /\ Done(r) /\ req[r].action = "logout" /\ req[r].doc = None
    /\ req[r].outcome = "MustLoginFirst"
    /\ \A i \in DOMAIN ledger :
         ledger[i].student = req[r].student => DayOf(i) # req[r].today

(* C7: a logout request that finds today's entry with timeOut set ends     *)
(* with AlreadyCompleted and the stored timeOut stays as it was.           *)
C7_LogoutOnClosed ==
  /\ [](\A r \in Slots :
          (HasRead(r) /\ req[r].action = "logout" /\ ReadClosed(r))
          => /\ req[r].pc \in {"decide", "done"}
             /\ Done(r) => (req[r].outcome = "AlreadyCompleted" /\ req[r].entry = 0))
  /\ [][\A r \in Slots :
          (req[r].pc = "decide" /\ req[r].action = "logout" /\ ReadClosed(r)
           /\ req'[r] # req[r])
          => (req'[r].outcome = "AlreadyCompleted" /\ ledger' = ledger)]_vars
C7_Witness ==
  \E r \in Slots :
    /\ Done(r) /\ req[r].action = "logout" /\ ReadClosed(r)
    /\ req[r].outcome = "AlreadyCompleted"
    /\ ledger[Val(req[r].doc).id].timeOut = Val(req[r].doc).timeOut

(* C8: the step that completes a logout stores timeOut = now on the entry, *)
(* keeps its timeIn, and reports duration = timeOut - timeIn with          *)
(* hours = floor(duration / 1h), minutes = floor((duration mod 1h) / 1min) *)
(* (09:00 to 17:30 is 8h 30m).                                             *)
NineOClock == 9 * MsPerHour
HalfPastFive == 17 * MsPerHour + 30 * MsPerMinute
LogoutReport(r, e, tIn, tOut) ==
  LET d == req'[r].duration
      h == req'[r].hours
      m == req'[r].minutes
  IN /\ tOut = req[r].now
     /\ d = tOut - tIn
     /\ h * MsPerHour <= d /\ d < (h + 1) * MsPerHour
     /\ m * MsPerMinute <= d - h * MsPerHour
     /\ d - h * MsPerHour < (m + 1) * MsPerMinute
     /\ (tIn = NineOClock /\ tOut = HalfPastFive) => (h = 8 /\ m = 30)
C8_LogoutSetsTimeOut ==
  [][\A r \in Slots :
       (req[r].pc = "save" /\ req[r].outcome = "logout" /\ req'[r].pc = "done")
       => LET e == req'[r].entry
          IN /\ req'[r].outcome = "LoggedOut"
             /\ e \in DOMAIN ledger
             /\ ledger'[e].timeOut = Some(req[r].now)
             /\ ledger'[e].timeIn = ledger[e].timeIn
             /\ \A i \in DOMAIN ledger : i # e => ledger'[i] = ledger[i]
             /\ LogoutReport(r, e, ledger'[e].timeIn, Val(ledger'[e].timeOut))]_vars
C8_Witness ==
  \E r \in Slots :
    /\ Done(r) /\ req[r].outcome = "LoggedOut"
    /\ ledger[req[r].entry].timeIn = NineOClock
    /\ ledger[req[r].entry].timeOut = Some(HalfPastFive)
    /\ req[r].hours = 8 /\ req[r].minutes = 30

(* C9: timeOut is written once per entry: no two requests complete a       *)
(* logout of the same entry.                                               *)
C9_TimeOutWrittenOnce ==
  \A r1, r2 \in Slots :
    (r1 # r2 /\ Done(r1) /\ Done(r2)
     /\ req[r1].outcome = "LoggedOut" /\ req[r2].outcome = "LoggedOut")
    => req[r1].entry # req[r2].entry

(* C10: the entry a request consults is an entry of the request's own      *)
(* calendar day.                                                           *)
C10_ConsultedEntryIsOfToday ==
  \A r \in Slots :
    IsSome(req[r].doc) => StartOfDay(Val(req[r].doc).date) = req[r].today


(* ----------------------- entry claims ----------------------- *)

Saves(r) == req[r].pc = "save" /\ req'[r].pc = "done"

(* C25: a failed photo upload neither stops nor changes the attendance     *)
(* decision: the request goes on to its save, the save creates the entry   *)
(* (login) or sets timeOut (logout) and answers success as it does after a *)
(* successful upload; only the photo reference of the entry differs.       *)
C25_UploadFailureIgnored ==
  /\ [](\A r \in Slots :
          req[r].upload # "none" =>
            /\ req[r].pc \in {"save", "done"}
            /\ Done(r) => req[r].outcome \in {"LoggedIn", "LoggedOut"})
  /\ [][\A r \in Slots :
          Saves(r) =>
            IF req[r].outcome = "login"
            THEN /\ req'[r].outcome = "LoggedIn"
                 /\ Len(ledger') = Len(ledger) + 1
                 /\ SubSeq(ledger', 1, Len(ledger)) = ledger
                 /\ ledger'[Len(ledger')].student = req[r].student
                 /\ ledger'[Len(ledger')].timeIn = req[r].now
                 /\ ledger'[Len(ledger')].timeOut = None
                 /\ (ledger'[Len(ledger')].loginPhotoUrl # None)
                      <=> (req[r].method = "face" /\ req[r].upload = "ok")
            ELSE /\ req'[r].outcome = "LoggedOut"
                 /\ ledger'[req'[r].entry].timeOut = Some(req[r].now)
                 /\ req'[r].entry = Val(req[r].doc).id
                 /\ \A i \in DOMAIN ledger : i # req'[r].entry => ledger'[i] = ledger[i]
                 /\ (req'[r].upload = "failed")
                      => ledger'[req'[r].entry].logoutPhotoUrl
                           = ledger[req'[r].entry].logoutPhotoUrl]_vars
C25_Witness ==
  \E r1, r2 \in Slots :
    /\ Done(r1) /\ req[r1].upload = "failed" /\ req[r1].outcome = "LoggedIn"
    /\ ledger[req[r1].entry].loginPhotoUrl = None
    /\ Done(r2) /\ req[r2].upload = "failed" /\ req[r2].outcome = "LoggedOut"
    /\ IsSome(ledger[req[r2].entry].timeOut)
    /\ ledger[req[r2].entry].logoutPhotoUrl = None

(* C26: each expected rejection has its own outcome, never the generic     *)
(* failure: a logout without an entry is answered MustLoginFirst, a login  *)
(* on an open entry AlreadyLoggedIn, an auto or logout on a closed entry   *)
(* AlreadyCompleted.                                                       *)
C26_SpecificRejections ==
  \A r \in Slots :
    Done(r) =>
      /\ req[r].outcome # "Failed"
      /\ (req[r].action = "logout" /\ req[r].doc = None)
           => req[r].outcome = "MustLoginFirst"
      /\ (req[r].action = "login" /\ ReadOpen(r))
           => req[r].outcome = "AlreadyLoggedIn"
      /\ (req[r].action \in {"auto", "logout"} /\ ReadClosed(r))
           => req[r].outcome = "AlreadyCompleted"

(* C27: an entry created by fingerprint stores the confidence 1.0, an      *)
(* entry created by face stores the confidence of the request's match.     *)
C27_StoredConfidence ==
  /\ \A i \in DOMAIN ledger :
       ledger[i].method = "fingerprint" => ledger[i].confidence = Some(100)
  /\ \A r \in Slots :
       (Done(r) /\ req[r].outcome = "LoggedIn" /\ req[r].method = "face")
       => ledger[req[r].entry].confidence = Some(req[r].confidence)

(* C28: the save that creates an entry and the save that closes one record *)
(* on the entry the method, the notes and the location of that request.    *)
C28_ContextRecorded ==
  [][\A r \in Slots :
       Saves(r) =>
         /\ ledger'[req'[r].entry].method = req[r].method
         /\ ledger'[req'[r].entry].notes = req[r].notes
         /\ ledger'[req'[r].entry].location = req[r].location]_vars

Succeeded(r) == Done(r) /\ req[r].outcome \in {"LoggedIn", "LoggedOut"}
Ended(r) == Done(r) /\ ~Succeeded(r)
EventsOfIn(ev, r) == {e \in BagToSet(ev) : e.request = r}
EmittedBy(ev, r) ==
  BagCardinality([e \in EventsOfIn(ev, r) |-> ev[e]])

C38_StatsResolveOnce ==
  /\ [](\A c \in Slots :
          /\ stats[c].result # None =>
               /\ stats[c].firstEvent # "none"
               /\ stats[c].result =
                    (IF stats[c].firstEvent = "timeout" THEN Some(ZeroStats)
                     ELSE stats[c].first)
               /\ ~stats[c].listener
          /\ (stats[c].pc = "pending") <=> (stats[c].result = None /\ stats[c].listener)
          /\ stats[c].timer = "fired" => (stats[c].result # None /\ ~stats[c].listener))
  /\ [][\A c \in Slots :
          stats[c].result # None => stats'[c].result = stats[c].result]_vars
  /\ \A c \in Slots : (stats[c].pc = "pending") ~> (stats[c].pc = "resolved")
C38_Witness ==
  \E c1, c2 \in Slots :
    /\ stats[c1].timer = "fired" /\ stats[c1].firstEvent = "response"
    /\ stats[c1].result # Some(ZeroStats)
    /\ stats[c2].timer = "fired" /\ stats[c2].firstEvent = "timeout"
    /\ stats[c2].result = Some(ZeroStats)

(* ----------------------- enrolment claim ----------------------- *)

(* C37: whatever the interleaving of enrollStudent and updateStudent       *)
(* requests, no two student records have the same e-mail and no two have   *)
(* the same phone.                                                         *)
C37_UniqueEmailAndPhone ==
  \A i, j \in DOMAIN roster :
    i # j => (roster[i].email # roster[j].email /\ roster[i].phone # roster[j].phone)
C37_UniqueEmail ==
  \A i, j \in DOMAIN roster : i # j => roster[i].email # roster[j].email

(* ----------------------- status check claim ----------------------- *)

EntriesOfDay(s, today) ==
  {i \in DOMAIN ledger : ledger[i].student = s /\ StartOfDay(ledger[i].date) = today}
OpenEntriesOfDay(s, today) ==
  {i \in EntriesOfDay(s, today) : ~IsSome(ledger[i].timeOut)}

C33_WitnessLoggedOut ==
  /\ chk.pc = "done" /\ ~chk.isLoggedIn /\ IsSome(chk.doc)
  /\ chk.message = "Already logged out"

(* ======================= embedding matcher ======================= *)
(* Distances, thresholds and confidences are in hundredths (One is 1.0).   *)
(* A descriptor has DescriptorLen components (128 in the program).         *)

DescriptorLen == 2
MaxCand == 2
One == 100
DefaultThreshold == 60
Thresholds == {45, DefaultThreshold, 120}
Comp == {0, 27, 36, 80}

Vec(a, b) == [i \in 1..DescriptorLen |-> IF i = 1 THEN a ELSE IF i = 2 THEN b ELSE 0]
ShortVec(a) == [i \in 1..(DescriptorLen - 1) |-> a]
GoodVecs == {Vec(a, b) : a, b \in Comp}
StoredVecs == GoodVecs \cup {ShortVec(27), <<>>}
Probes == {Vec(0, 0), Vec(36, 0), ShortVec(0)}

RECURSIVE SumSq(_, _, _)
SumSq(x, y, n) ==
  IF n = 0 THEN 0 ELSE (x[n] - y[n]) * (x[n] - y[n]) + SumSq(x, y, n - 1)
ISqrt(n) ==
  CHOOSE k \in 0..(2 * One * DescriptorLen) : k * k <= n /\ n < (k + 1) * (k + 1)

(* faceapi.euclideanDistance: throws when the lengths differ *)
LengthMismatch(x, y) == Len(x) # Len(y)
EuclideanDistanceFromFirst(x, y) == ISqrt(SumSq(x, [i \in DOMAIN y |-> 0], Len(x)))
EuclideanDistance(x, y) == ISqrt(SumSq(x, y, Len(x)))

(* Math.max(0, 1 - (distance / 1.0)) *)
ConfidenceNoFloor(d) == One - d
Confidence(d) == IF One - d > 0 THEN One - d ELSE 0

(* if (distance < threshold && distance < bestDistance); None is Infinity *)
ImprovesLeq(d, threshold, bestDistance) ==
  d <= threshold /\ (bestDistance = None \/ d < Val(bestDistance))
ImprovesAnyBelow(d, threshold, bestDistance) == d < threshold
ImprovesOrTies(d, threshold, bestDistance) ==
  d < threshold /\ (bestDistance = None \/ d <= Val(bestDistance))
Improves(d, threshold, bestDistance) ==
  d < threshold /\ (bestDistance = None \/ d < Val(bestDistance))

(* Student.find({ isActive: true, faceDescriptor: { $exists: true, $ne: [] } }) *)
EnrolledWithFace(stored) == SelectSeq(stored, LAMBDA c : c.vec # <<>>)
(* students.filter(s => s.faceDescriptor && s.faceDescriptor.length === 128) *)
StudentsWithFace(students) ==
  SelectSeq(students, LAMBDA c : Len(c.vec) = DescriptorLen)

RECURSIVE SeqsUpTo(_, _)
SeqsUpTo(S, n) ==
  IF n = 0 THEN {<<>>}
  ELSE LET P == SeqsUpTo(S, n - 1)
       IN P \cup {Append(q, x) : q \in {z \in P : Len(z) = n - 1}, x \in S}
WithIds(vs) == [k \in DOMAIN vs |-> [id |-> k, vec |-> vs[k]]]

InitMatch ==
  /\ InitStore
  /\ isModifiedDefault = FALSE
  /\ vf = VfIdle
  /\ \E p \in Probes, vs \in SeqsUpTo(StoredVecs, MaxCand), t \in Thresholds :
       mt = [MtIdle EXCEPT !.pc = "start", !.probe = p,
                           !.stored = WithIds(vs), !.threshold = t]

matchFrame ==
  <<clock, ledger, req, isModifiedDefault, events, active, counter, issued, fp, tg, vf, enrolledAt, ab, roster, en, stats, chk>>

(* compareFaces(probe, first stored descriptor, threshold) *)
CompareFaces ==
  /\ mt.pc = "start"
  /\ mt.cmp = None
  /\ Len(mt.stored) > 0
  /\ ~LengthMismatch(mt.probe, mt.stored[1].vec)
  /\ LET d == EuclideanDistance(mt.probe, mt.stored[1].vec)
     IN mt' = [mt EXCEPT !.cmp = Some([match |-> d < mt.threshold,
                                       confidence |-> Confidence(d),
                                       distance |-> d])]
  /\ UNCHANGED matchFrame

(* markAttendance: the students read, the 404 when there are none, the     *)
(* length filter, and the call of findBestMatch                            *)
MatchFilter ==
  /\ mt.pc = "start"
  /\ LET students == EnrolledWithFace(mt.stored)
     IN IF Len(students) = 0
        THEN mt' = [mt EXCEPT !.pc = "done", !.outcome = "NoStudents"]
        ELSE mt' = [mt EXCEPT !.pc = "loop", !.cands = StudentsWithFace(students),
                              !.i = 1]
  /\ UNCHANGED matchFrame

(* one iteration of `for (const student of studentDescriptors)` *)
MatchCompare ==
  /\ mt.pc = "loop"
  /\ mt.i <= Len(mt.cands)
  /\ LET c == mt.cands[mt.i]
     IN IF LengthMismatch(mt.probe, c.vec)
        THEN mt' = [mt EXCEPT !.pc = "done", !.outcome = "Error"]
        ELSE LET d == EuclideanDistance(mt.probe, c.vec)
             IN IF Improves(d, mt.threshold, mt.bestDistance)
                THEN mt' = [mt EXCEPT !.i = @ + 1,
                              !.best = Some([id |-> c.id, confidence |-> Confidence(d),
                                             distance |-> d]),
                              !.bestDistance = Some(d)]
                ELSE mt' = [mt EXCEPT !.i = @ + 1]
  /\ UNCHANGED matchFrame

(* `return bestMatch` and the 404 of the controller when it is null *)
MatchReturn ==
  /\ mt.pc = "loop"
  /\ mt.i > Len(mt.cands)
  /\ mt' = [mt EXCEPT !.pc = "done",
                      !.outcome = IF mt.best = None THEN "NoMatch" ELSE "Match"]
  /\ UNCHANGED matchFrame

NextMatch ==
  \/ CompareFaces
  \/ MatchFilter
  \/ MatchCompare
  \/ MatchReturn

SpecMatch == InitMatch /\ [][NextMatch]_vars


(* ----------------------- matcher claims ----------------------- *)

(* findBestMatch ran its loop to the end and returned *)
MatchReturned == mt.pc = "done" /\ mt.outcome \in {"NoMatch", "Match"}
SqDistTo(k) == SumSq(mt.probe, mt.cands[k].vec, Len(mt.probe))
DistTo(k) == EuclideanDistance(mt.probe, mt.cands[k].vec)
SqThreshold == mt.threshold * mt.threshold
SomeBelowThreshold == \E k \in DOMAIN mt.cands : SqDistTo(k) < SqThreshold

(* C11: findBestMatch returns null whenever every candidate's distance is  *)
(* >= threshold (a distance equal to the threshold and an empty list       *)
(* included).                                                              *)
C11_NoMatchAtOrAboveThreshold ==
  (MatchReturned /\ ~SomeBelowThreshold) => (mt.best = None /\ mt.outcome = "NoMatch")
C11_Witness ==
  /\ MatchReturned
  /\ mt.best = None
  /\ \E k \in DOMAIN mt.cands : SqDistTo(k) = SqThreshold
  /\ \A k \in DOMAIN mt.cands : SqDistTo(k) >= SqThreshold

(* C12: when some candidate is strictly below the threshold, findBestMatch *)
(* returns a candidate at the minimal distance, with that distance, which  *)
(* is below the threshold.                                                 *)
C12_ReturnsMinimum ==
  (MatchReturned /\ SomeBelowThreshold)
  => /\ mt.best # None
     /\ \A k \in DOMAIN mt.cands : Val(mt.best).distance <= DistTo(k)
     /\ \E k \in DOMAIN mt.cands :
          mt.cands[k].id = Val(mt.best).id /\ DistTo(k) = Val(mt.best).distance
     /\ Val(mt.best).distance < mt.threshold
C12_Witness ==
  /\ MatchReturned
  /\ mt.best # None
  /\ Len(mt.cands) >= 2
  /\ SqDistTo(1) < SqThreshold
  /\ Val(mt.best).id # mt.cands[1].id
  /\ Val(mt.best).distance < DistTo(1)

(* C13: the reported confidence is max(0, 1 - distance), never negative,   *)
(* 0 from distance 1 on; acceptance is distance < threshold and nothing    *)
(* else (distance 0.45, threshold 0.6: match, confidence 0.55).            *)
ConfidenceIsFlooredComplement(c, d) ==
  /\ c >= 0
  /\ d >= One => c = 0
  /\ d < One => c + d = One
C13_ConfidenceFloorsAtZero ==
  /\ mt.best # None =>
       /\ ConfidenceIsFlooredComplement(Val(mt.best).confidence, Val(mt.best).distance)
       /\ (Val(mt.best).distance = 45 /\ mt.threshold = DefaultThreshold)
            => Val(mt.best).confidence = 55
  /\ mt.cmp # None =>
       /\ ConfidenceIsFlooredComplement(Val(mt.cmp).confidence, Val(mt.cmp).distance)
       /\ Val(mt.cmp).match <=> (Val(mt.cmp).distance < mt.threshold)
  /\ MatchReturned => ((mt.outcome = "Match") <=> SomeBelowThreshold)
C13_Witness ==
  /\ MatchReturned
  /\ mt.threshold = DefaultThreshold
  /\ mt.best # None
  /\ Val(mt.best).distance = 45
  /\ Val(mt.best).confidence = 55
C13_WitnessFloor ==
  /\ MatchReturned /\ mt.best # None
  /\ Val(mt.best).distance >= One /\ Val(mt.best).confidence = 0

WrongLengthEnrolled ==
  \E k \in DOMAIN mt.stored :
    mt.stored[k].vec # <<>> /\ Len(mt.stored[k].vec) # DescriptorLen
C15_WrongLengthFails ==
  (/\ mt.pc = "done" /\ mt.outcome # "NoStudents"
   /\ (WrongLengthEnrolled \/ Len(mt.probe) # DescriptorLen))
  => mt.outcome = "DimensionMismatch"


(* C36: among several candidates at the minimal distance, below the       *)
(* threshold, findBestMatch returns the one that comes first in the list;  *)
(* a later candidate replaces the best only with a strictly smaller        *)
(* distance.                                                               *)
FirstAtDistance(d) ==
  CHOOSE k \in DOMAIN mt.cands :
    DistTo(k) = d /\ \A j \in 1..(k - 1) : DistTo(j) # d
C36_FirstOfTiesWins ==
  /\ (MatchReturned /\ mt.best # None)
       => Val(mt.best).id = mt.cands[FirstAtDistance(Val(mt.best).distance)].id
  /\ (mt.pc = "loop" /\ mt.best # None)
       => \A j \in 1..(mt.i - 1) :
            (mt.cands[j].id > Val(mt.best).id) => DistTo(j) >= Val(mt.best).distance
C36_Witness ==
  /\ MatchReturned
  /\ Len(mt.cands) >= 2
  /\ mt.cands[1].vec # mt.cands[2].vec
  /\ SqDistTo(1) = SqDistTo(2)
  /\ SqDistTo(1) < SqThreshold
  /\ mt.best # None
  /\ Val(mt.best).id = mt.cands[1].id

(* ======================= fingerprint attendance ======================= *)

MaxChallenges == 1
(* the challenges a client may embed: those handed out and one that never  *)
(* is                                                                      *)
SentChallenges == 1..(MaxChallenges + 1)

(* A credential id is a base64 text; only the number of its base64         *)
(* characters (padding aside) matters to the handler.  The assertion also  *)
(* carries the authenticator's signature counter, which no line reads.     *)
MaxSignCount == 1
SignCounts == 0..MaxSignCount
EnrolledCredentialChars == 2 * 11
CredentialChars == {0, 20, 21, EnrolledCredentialChars, 1365, 1366, 1367}

(* Buffer.from(credentialId, 'base64').length: four characters give three  *)
(* bytes, a rest of two or three characters gives one or two               *)
DecodedLength(chars) == (chars * 3) \div 4
(* buffer.length >= 16 && buffer.length <= 1024 *)
IsValidCredentialIdExclusive(chars) ==
  DecodedLength(chars) > 16 /\ DecodedLength(chars) < 1024
IsValidCredentialId(chars) ==
  DecodedLength(chars) >= 16 /\ DecodedLength(chars) <= 1024

InFlightFp(r) == fp[r].pc \in {"verify", "save"} \/ InFlight(r)
NamedFp == {fp[q].student : q \in {x \in Slots : fp[x].pc # "idle"}} \ {0}
FreshOrNamedFp(s) == s \in NamedFp \/ s = Cardinality(NamedFp) + 1

(* generateChallenge: crypto.randomBytes(32), a value not handed out       *)
(* before; the handler stores nothing, `issued` only remembers what was    *)
(* sent to clients                                                         *)
GenerateChallenge ==
  /\ Cardinality(issued) < MaxChallenges
  /\ issued' = issued \cup {Cardinality(issued) + 1}
  /\ UNCHANGED <<clock, ledger, req, isModifiedDefault, events, active, counter, fp, tg, mt, vf, enrolledAt, ab, roster, en, stats, chk>>

(* a request arrives with a credential id of `id` characters (that of      *)
(* student s when it is an enrolled one), an assertion that embeds         *)
(* challenge c, carries signature counter n and is validly signed or not;  *)
(* an absent or invalid id is answered 400 at once, otherwise the store    *)
(* executes Student.findOne({ fingerprintCredentialId, isActive: true })   *)
FpFind(r, s, a, c, signed, n, id) ==
  /\ fp[r].pc = "idle"
  /\ \A q \in Slots : q < r => fp[q].pc # "idle"
  /\ FreshOrNamedFp(s)
  /\ Cardinality({q \in Slots : InFlightFp(q)}) < MaxInflight
  /\ IF id = 0 \/ ~IsValidCredentialId(id)
     THEN fp' = [fp EXCEPT ![r] =
                   [FpIdle EXCEPT !.pc = "done", !.credential = id,
                                  !.outcome = "InvalidCredential"]]
     ELSE IF id = EnrolledCredentialChars /\ Resolves(active, s)
     THEN fp' = [fp EXCEPT ![r] =
                   [pc |-> "verify", student |-> s, action |-> a, challenge |-> c,
                    signed |-> signed, counterRead |-> counter[s],
                    outcome |-> "none", credential |-> id, signCount |-> n]]
     ELSE fp' = [fp EXCEPT ![r] =
                   [FpIdle EXCEPT !.pc = "done", !.credential = id,
                                  !.outcome = "NotFound"]]
  /\ UNCHANGED <<clock, ledger, req, isModifiedDefault, events, active, counter, issued, tg, mt, vf, enrolledAt, ab, roster, en, stats, chk>>

(* verifyAssertion(fingerprintData, student.fingerprintPublicKey!): no     *)
(* expected challenge is passed; then fingerprintCounter += 1 on the       *)
(* document read and save() is issued                                      *)
FpVerify(r) ==
  /\ fp[r].pc = "verify"
  /\ IF fp[r].signed
     THEN fp' = [fp EXCEPT ![r].pc = "save"]
     ELSE fp' = [fp EXCEPT ![r].pc = "done", ![r].outcome = "Unauthorized"]
  /\ UNCHANGED <<clock, ledger, req, isModifiedDefault, events, active, counter, issued, tg, mt, vf, enrolledAt, ab, roster, en, stats, chk>>

(* the store executes student.save(): fingerprintCounter is set to the     *)
(* value read plus one; the handler goes on to the session logic           *)
FpSaveCounterKeep(r) ==
  /\ fp[r].pc = "save"
  /\ counter' = [counter EXCEPT ![fp[r].student] = fp[r].counterRead]
  /\ fp' = [fp EXCEPT ![r].pc = "session", ![r].outcome = "Accepted"]
  /\ req' = [req EXCEPT ![r] =
               [IdleReq EXCEPT !.pc = "query", !.student = fp[r].student,
                               !.action = fp[r].action, !.method = "fingerprint",
                               !.today = StartOfDay(clock),
                               !.location = DefaultInput.location,
                               !.notes = DefaultInput.notes,
                               !.confidence = 100]]
  /\ UNCHANGED <<clock, ledger, isModifiedDefault, events, active, issued, tg, mt, vf, enrolledAt, ab, roster, en, stats, chk>>
FpSaveCounter(r) ==
  /\ fp[r].pc = "save"
  /\ counter' = [counter EXCEPT ![fp[r].student] = fp[r].counterRead + 1]
  /\ fp' = [fp EXCEPT ![r].pc = "session", ![r].outcome = "Accepted"]
  /\ req' = [req EXCEPT ![r] =
               [IdleReq EXCEPT !.pc = "query", !.student = fp[r].student,
                               !.action = fp[r].action, !.method = "fingerprint",
                               !.today = StartOfDay(clock),
                               !.location = DefaultInput.location,
                               !.notes = DefaultInput.notes,
                               !.confidence = 100]]
  /\ UNCHANGED <<clock, ledger, isModifiedDefault, events, active, issued, tg, mt, vf, enrolledAt, ab, roster, en, stats, chk>>

(* every client presents its enrolled credential id; the signature counter *)
(* of the assertion, which the handler ignores, is left at its first value *)
FpFindAny ==
  \E r \in Slots, s \in Students, a \in Actions, c \in SentChallenges, signed \in BOOLEAN :
    FpFind(r, s, a, c, signed, 0, EnrolledCredentialChars)
FpVerifyAny == \E r \in Slots : FpVerify(r)
FpSaveCounterAny == \E r \in Slots : FpSaveCounter(r)

NextFp ==
  \/ GenerateChallenge
  \/ FpFindAny
  \/ FpVerifyAny
  \/ FpSaveCounterAny
  \/ QueryAny
  \/ DecideAny
  \/ SaveLoginAny
  \/ SaveLogoutAny

SpecFp == Init /\ [][NextFp]_vars

(* fingerprint requests served one after the other, with any credential id *)
(* and any signature counter                                               *)
FpFindSeq ==
  /\ \A q \in Slots : ~InFlightFp(q)
  /\ \E r \in Slots, s \in Students, a \in Actions, c \in SentChallenges,
        signed \in BOOLEAN, n \in SignCounts, id \in CredentialChars :
       FpFind(r, s, a, c, signed, n, id)

NextFpSeq ==
  \/ FpFindSeq
  \/ FpVerifyAny
  \/ FpSaveCounterAny
  \/ QueryAny
  \/ DecideAny
  \/ SaveLoginAny
  \/ SaveLogoutAny

SpecFpSeq == Init /\ [][NextFpSeq]_vars

(* ----------------------- fingerprint claims ----------------------- *)

Accepted(r) == fp[r].outcome = "Accepted"

(* C19: a challenge is single-use: at most one assertion carrying a given  *)
(* challenge is accepted, and an assertion whose challenge was never       *)
(* issued is not accepted.                                                 *)
C19_ChallengeSingleUse ==
  /\ \A r \in Slots : Accepted(r) => fp[r].challenge \in issued
  /\ \A r1, r2 \in Slots :
       (r1 # r2 /\ Accepted(r1) /\ Accepted(r2)) => fp[r1].challenge # fp[r2].challenge

(* C22: an assertion whose signature counter does not advance past the     *)
(* stored counter is refused with ReplayDetected although its signature    *)
(* verifies, and starts no attendance transition.                          *)
C22_ReplayDetected ==
  \A r \in Slots :
    (/\ fp[r].pc \in {"session", "done"}
     /\ fp[r].outcome \notin {"InvalidCredential", "NotFound"}
     /\ fp[r].signed
     /\ fp[r].signCount <= fp[r].counterRead)
    => (fp[r].outcome = "ReplayDetected" /\ req[r] = IdleReq)

(* C23: a credential id is valid exactly when its decoded length is in     *)
(* 16..1024 bytes (22 base64 characters give 16 bytes, 21 give 15, 1366    *)
(* give 1024, 1367 give 1025); a request with an invalid id is answered    *)
(* before any student is looked up and without any change of the store.    *)
C23_CredentialIdChecked ==
  /\ [](\A r \in Slots :
          fp[r].pc # "idle" =>
            /\ (fp[r].outcome = "InvalidCredential")
                 <=> ~(DecodedLength(fp[r].credential) \in 16..1024)
            /\ fp[r].credential \in {22, 1366} => fp[r].outcome # "InvalidCredential"
            /\ fp[r].credential \in {21, 1367} => fp[r].outcome = "InvalidCredential"
            /\ fp[r].outcome = "InvalidCredential"
                 => (fp[r].student = 0 /\ req[r] = IdleReq))
  /\ [][\A r \in Slots :
          (fp[r].pc = "idle" /\ fp'[r].outcome = "InvalidCredential")
          => UNCHANGED <<ledger, req, active, counter, issued, enrolledAt, ab>>]_vars
C23_Witness ==
  \E r1, r2, r3 \in Slots :
    /\ fp[r1].credential = 1366 /\ fp[r1].outcome = "NotFound"
    /\ fp[r2].credential = 1367 /\ fp[r2].outcome = "InvalidCredential"
    /\ fp[r3].credential = 22 /\ fp[r3].outcome = "Accepted"

(* C21: counter advancement is atomic: once the requests for a credential  *)
(* that passed verification have all saved, the stored counter is higher   *)
(* than at the start (0) by exactly their number.                          *)
C21_CounterCountsAccepted ==
  \A s \in Students :
    (\A r \in Slots : fp[r].student = s => fp[r].pc \notin {"verify", "save"})
    => counter[s] = Cardinality({r \in Slots : Accepted(r) /\ fp[r].student = s})

(* C20: the stored counter of a credential never decreases.                *)
C20_CounterNeverDecreases ==
  [][\A s \in Students : counter'[s] >= counter[s]]_vars

(* C34: requests served one after the other: the stored counter rises by  *)
(* exactly 1 with each request whose assertion verifies, whatever session  *)
(* outcome follows, and no request refused before or at verification       *)
(* changes it.                                                             *)
Verified(r) == fp[r].pc \in {"session", "done"} /\ fp[r].outcome = "Accepted"
RefusedOutcomes == {"InvalidCredential", "NotFound", "Unauthorized"}
C34_CounterPerVerifiedRequest ==
  /\ [](\A s \in Students :
          counter[s] = Cardinality({r \in Slots : Verified(r) /\ fp[r].student = s}))
  /\ [][\A r \in Slots :
          /\ (fp[r].pc = "save" /\ fp'[r].pc = "session")
               => /\ counter'[fp[r].student] = counter[fp[r].student] + 1
                  /\ \A s \in Students \ {fp[r].student} : counter'[s] = counter[s]
          /\ (fp[r].outcome = "none" /\ fp'[r].outcome \in RefusedOutcomes)
               => counter' = counter
          /\ (Verified(r) /\ req'[r] # req[r]) => counter' = counter]_vars
C34_Witness ==
  \E r1, r2, r3 \in Slots :
    /\ fp[r1].student = 1 /\ fp[r2].student = 1 /\ fp[r3].student = 1
    /\ Verified(r1) /\ Done(r1) /\ req[r1].outcome = "MustLoginFirst"
    /\ fp[r2].outcome = "Unauthorized"
    /\ Verified(r3) /\ Done(r3) /\ req[r3].outcome = "LoggedIn"
    /\ counter[1] = 2

(* ======================= absentee report ======================= *)

(* enrolledAt is Date.now at enrolment: an hour before midnight, exactly   *)
(* midnight, and the morning of the first day of the model                 *)
EnrollTimes == {0 - MsPerHour, 0, ClockStart}
(* req.query.date: absent, or a calendar day *)
TargetDays == (0 - 2)..1
QueryDates == {None} \cup {Some(d * MsPerDay) : d \in TargetDays}

(* new Date(date) or yesterday, then setHours(0, 0, 0, 0) *)
TargetDate(date, now) ==
  IF date = None THEN StartOfDay(now - MsPerDay) ELSE StartOfDay(Val(date))
(* nextDay.setDate(nextDay.getDate() + 1) *)
NextDay(targetDate) == targetDate + MsPerDay

AllStudentsSeq == [i \in 1..NumStudents |-> i]
(* Student.find({ isActive: true, enrolledAt: { $lte: nextDay } }) *)
FindStudents(act, enr, nextDay) ==
  SelectSeq(AllStudentsSeq, LAMBDA st : act[st] /\ enr[st] <= nextDay)
(* Attendance.find({ date: { $gte: targetDate, $lt: nextDay } }).distinct('student') *)
FindPresentOpenOnly(L, targetDate, nextDay) ==
  {L[i].student : i \in {j \in DOMAIN L :
      L[j].date >= targetDate /\ L[j].date < nextDay /\ ~IsSome(L[j].timeOut)}}
FindPresent(L, targetDate, nextDay) ==
  {L[i].student : i \in {j \in DOMAIN L : L[j].date >= targetDate /\ L[j].date < nextDay}}
(* allStudents.filter(student => !presentStudents.some(...)) *)
FilterAbsent(allStudents, presentStudents) ==
  SelectSeq(allStudents, LAMBDA st : st \notin presentStudents)

InitAbsent ==
  /\ clock = ClockStart
  /\ ledger = <<>>
  /\ req = [r \in Slots |-> IdleReq]
  /\ active \in [Students -> BOOLEAN]
  /\ counter = [s \in Students |-> 0]
  /\ issued = {}
  /\ fp = [r \in Slots |-> FpIdle]
  /\ tg = TgIdle
  /\ events = EmptyBag
  /\ roster = <<>>
  /\ en = [r \in Slots |-> EnIdle]
  /\ stats = [c \in Slots |-> StatsIdle]
  /\ chk = ChkIdle
  /\ enrolledAt \in [Students -> EnrollTimes]
  /\ ab = AbIdle
  /\ isModifiedDefault \in BOOLEAN
  /\ mt = MtIdle
  /\ vf = VfIdle

(* getAbsentStudents up to the first await: the day is computed and the    *)
(* store executes Student.find                                             *)
AbsentFindStudents(date) ==
  /\ ab.pc = "idle"
  /\ LET targetDate == TargetDate(date, clock)
         nextDay == NextDay(targetDate)
     IN ab' = [AbIdle EXCEPT !.pc = "present", !.targetDate = targetDate,
                             !.nextDay = nextDay,
                             !.allStudents = FindStudents(active, enrolledAt, nextDay)]
  /\ UNCHANGED <<clock, ledger, req, isModifiedDefault, events, active, counter, issued, fp, tg,
                 mt, vf, enrolledAt, roster, en, stats, chk>>

(* the store executes Attendance.find(...).distinct('student'); the        *)
(* handler filters and answers                                             *)
AbsentFindPresent ==
  /\ ab.pc = "present"
  /\ LET presentStudents == FindPresent(ledger, ab.targetDate, ab.nextDay)
     IN ab' = [ab EXCEPT !.pc = "done", !.presentStudents = presentStudents,
                         !.absentStudents = FilterAbsent(ab.allStudents, presentStudents)]
  /\ UNCHANGED <<clock, ledger, req, isModifiedDefault, events, active, counter, issued, fp, tg,
                 mt, vf, enrolledAt, roster, en, stats, chk>>

AbsentFindStudentsAny == \E date \in QueryDates : AbsentFindStudents(date)

(* attendance marked by fingerprint requests (auto or login) served one    *)
(* after the other, and one absentee report at any moment                  *)
BeginAbsent ==
  /\ \A q \in Slots : ~InFlight(q)
  /\ \E r \in Slots, s \in Students, a \in {"auto", "login"} :
       Begin(r, s, a, "fingerprint", DefaultInput)

NextAbsent ==
  \/ BeginAbsent
  \/ QueryAny
  \/ DecideAny
  \/ SaveLoginAny
  \/ SaveLogoutAny
  \/ Tick
  \/ AbsentFindStudentsAny
  \/ AbsentFindPresent

SpecAbsent == InitAbsent /\ [][NextAbsent]_vars

(* ----------------------- absentee claims ----------------------- *)

Listed == {ab.absentStudents[k] : k \in DOMAIN ab.absentStudents}

(* C30: the report for day D lists, once each, exactly the active students *)
(* enrolled no later than the start of day D+1 that have no entry dated in *)
(* [start of D, start of D+1), whatever the timeOut of their entries.      *)
HasEntryOn(s, D) ==
  \E i \in DOMAIN ledger :
    ledger[i].student = s /\ ledger[i].date >= D /\ ledger[i].date < D + MsPerDay
ExpectedAbsent(D) ==
  {s \in Students : active[s] /\ enrolledAt[s] <= D + MsPerDay /\ ~HasEntryOn(s, D)}
C24_NoLaterEnrolment ==
  ab.pc = "done" => \A s \in Listed : enrolledAt[s] < ab.targetDate + MsPerDay

(* ======================= assertion verifier ======================= *)

(* The fields of a request as the client may send them.  clientDataJSON is *)
(* absent, not JSON, the JSON text `null`, or a JSON object with a type    *)
(* and a challenge; a signature is absent, not a signature, or made with   *)
(* the private half of `key` over `auth || SHA-256(cd)`.                   *)
ClientTypes == {"webauthn.get", "webauthn.create"}
Challenges == {"", "c1", "c2"}
JsonClientData == [kind : {"json"}, type : ClientTypes, challenge : Challenges]
NoClientData(k) == [kind |-> k, type |-> "none", challenge |-> ""]
ClientDatas == JsonClientData \cup {NoClientData(k) : k \in {"undefined", "notJson", "null"}}
AuthDatas == {"a1", "a2"}
Keys == {"k1", "k2"}
PublicKeys == Keys \cup {"malformed"}
Signatures ==
  [kind : {"sig"}, key : Keys, auth : AuthDatas, cd : JsonClientData]
  \cup {[kind |-> k, key |-> "none", auth |-> "none", cd |-> NoClientData("undefined")] :
          k \in {"undefined", "garbage"}}
Requests ==
  [clientDataJSON : ClientDatas, authenticatorData : {"a1", "undefined"},
   signature : Signatures]
ExpectedChallenges == {None} \cup {Some(c) : c \in Challenges}

(* crypto.createHash('sha256').update(clientDataBuffer).digest() *)
Sha256(x) == <<"sha256", x>>
(* Buffer.concat([authDataBuffer, clientDataHash]) *)
SignedData(auth, cd) == <<auth, Sha256(cd)>>
(* verify.verify({ key, format: 'der', type: 'spki' }, signatureBuffer) *)
SignatureVerifies(sig, publicKey, data) ==
  sig.kind = "sig" /\ sig.key = publicKey /\ SignedData(sig.auth, sig.cd) = data

(* `challenge && ...`: undefined and the empty string are falsy *)
Truthy(challenge) == challenge # None /\ Val(challenge) # ""

(* the body of the try block: "true", "false", or "throw" when a statement *)
(* of it throws                                                            *)
VerifyBody(request, publicKey, challenge) ==
  LET clientData == request.clientDataJSON
  IN IF clientData.kind # "json" THEN "throw"
     ELSE IF Truthy(challenge) /\ clientData.challenge # Val(challenge) THEN "false"
     ELSE IF clientData.type # "webauthn.get" THEN "false"
     ELSE IF request.authenticatorData = "undefined" THEN "throw"
     ELSE IF request.signature.kind = "undefined" THEN "throw"
     ELSE IF publicKey = "malformed" THEN "throw"
     ELSE IF SignatureVerifies(request.signature, publicKey,
                               SignedData(request.authenticatorData, clientData))
          THEN "true" ELSE "false"

(* try { ... } catch (error) { return false } *)
VerifyAssertionNoCatch(request, publicKey, challenge) ==
  VerifyBody(request, publicKey, challenge)
VerifyAssertion(request, publicKey, challenge) ==
  IF VerifyBody(request, publicKey, challenge) = "throw" THEN "false"
  ELSE VerifyBody(request, publicKey, challenge)

InitVerify ==
  /\ InitStore
  /\ isModifiedDefault = FALSE
  /\ mt = MtIdle
  /\ \E q \in Requests, k \in PublicKeys, c \in ExpectedChallenges :
       vf = [pc |-> "start", request |-> q, publicKey |-> k, challenge |-> c,
             result |-> "none"]

(* one call of FingerprintService.verifyAssertion; it awaits nothing *)
VerifyCall ==
  /\ vf.pc = "start"
  /\ vf' = [vf EXCEPT !.pc = "done",
                      !.result = VerifyAssertion(vf.request, vf.publicKey, vf.challenge)]
  /\ UNCHANGED <<clock, ledger, req, isModifiedDefault, events, active, counter, issued, fp, tg, mt, enrolledAt, ab, roster, en, stats, chk>>

NextVerify == VerifyCall

SpecVerify == InitVerify /\ [][NextVerify]_vars

(* ----------------------- verifier claims ----------------------- *)

TypeIsGet == vf.request.clientDataJSON.kind = "json"
             /\ vf.request.clientDataJSON.type = "webauthn.get"
SignatureIsGood ==
  /\ vf.request.signature.kind = "sig"
  /\ vf.request.signature.key = vf.publicKey
  /\ vf.request.signature.auth = vf.request.authenticatorData
  /\ vf.request.signature.cd = vf.request.clientDataJSON

(* C17: verifyAssertion never raises: every call completes with true or    *)
(* false, and with false when the client data cannot be decoded or parsed, *)
(* the public key is malformed or the signature does not verify.           *)
C17_NeverRaises ==
  vf.pc = "done"
  => /\ vf.result \in {"true", "false"}
     /\ (\/ vf.request.clientDataJSON.kind # "json"
         \/ vf.publicKey = "malformed"
         \/ ~SignatureIsGood) => vf.result = "false"
C17_Witness ==
  /\ vf.pc = "done"
  /\ TypeIsGet
  /\ vf.challenge = None
  /\ vf.publicKey = "malformed"
  /\ vf.request.signature.kind = "sig"
  /\ vf.result = "false"

(* C18: verifyAssertion returns true exactly when the type tag is          *)
(* 'webauthn.get', the embedded challenge equals the expected one whenever *)
(* one is supplied, and the signature verifies under the stored key.       *)
C18_TrueOnlyIfAllThree ==
  vf.pc = "done"
  => (vf.result = "true"
      <=> /\ TypeIsGet
          /\ vf.challenge # None
                => vf.request.clientDataJSON.challenge = Val(vf.challenge)
          /\ SignatureIsGood)

(* ----------------------- activation claim ----------------------- *)

(* C16: a request resolves only to an identity that is stored as active at *)
(* that moment, so none resolves to a deactivated identity until it is     *)
(* reactivated; and the toggle leaves every attendance entry as it was.    *)
C16_InactiveNotResolved ==
  [][/\ \A r \in Slots :
         (req[r].pc = "idle" /\ req'[r].pc # "idle") => active[req'[r].student]
     /\ (active' # active \/ tg' # tg) => ledger' = ledger]_vars
C16_Witness ==
  \E s \in Students :
    /\ ~active[s]
    /\ tg.pc = "idle"
    /\ \E i \in DOMAIN ledger : ledger[i].student = s
    /\ \E r \in Slots : InFlight(r) /\ req[r].student # s

=============================================================================
